---- MODULE Spec2Model ----
(***************************************************************************)
(* Model of server/server.py: the lazily initialised DuckDB connection,   *)
(* the schema index built from the __duckpgq_internal catalog, and the    *)
(* four request handlers.                                                 *)
(*                                                                         *)
(* Spec      : two request threads (Flask's threaded server) whose         *)
(*             statements interleave.                                      *)
(* SeqSpec   : one request at a time, the full request universe.          *)
(* BuildSpec : one request at a time, the larger catalogs.                *)
(***************************************************************************)
EXTENDS Naturals, Sequences, FiniteSets

VARIABLES
    catalog,             \* rows of __duckpgq_internal (the database file)
    conn,                \* global conn: 0 is None, n > 0 the n-th handle opened
    graph_name,          \* global graph_name
    outgoing_relations,  \* global dict, as the sequence of its items in insertion order
    incoming_relations,  \* global dict, same representation
    node_types,          \* global set
    opened,              \* number of duckdb.connect calls that returned a handle
    pc,                  \* per thread: the statement it is at
    req,                 \* per thread: the request it is serving
    attempt,             \* per thread: initialize_db's loop variable
    rowi,                \* per thread: index of the catalog row being processed
    present,             \* per thread: outcome of the last "in dict" test
    hist,                \* per thread: outcomes of the attempts of the call in progress
    db_conn,             \* per thread: what initialize_db returned
    response             \* per thread: the response of the last request

globals == <<conn, graph_name, outgoing_relations, incoming_relations, node_types, opened>>
locals == <<pc, req, attempt, rowi, present, hist, db_conn, response>>
vars == <<catalog, conn, graph_name, outgoing_relations, incoming_relations, node_types,
          opened, pc, req, attempt, rowi, present, hist, db_conn, response>>

(***************************************************************************)
(* Bounds and input universes                                              *)
(***************************************************************************)
MaxRows == 3
SeqRows == 3
ConcRows == 2
max_attempts == 3

Null == "NULL"
Threads == {"t1", "t2"}
SeqThread == "t1"

Row(pg, s, d, l) == [pg |-> pg, src |-> s, dst |-> d, lbl |-> l]

CatalogRows ==
    { Row("g", "A", "B", "r"), Row("g", "A", "B", "s"), Row(Null, "B", "A", "r"),
      Row("g", Null, "B", "r"), Row("g", "A", Null, "s"), Row("g", "B", "A", Null) }

SeqCatalogRows ==
    { Row("g", "A", "B", "r"), Row("g", "A", "B", "s"), Row(Null, "B", "A", "r") }

ConcCatalogRows == { Row("g", "A", "B", "r"), Row(Null, "A", "B", "s") }

SeqsUpTo(S, n) == UNION { [1..k -> S] : k \in 0..n }

(***************************************************************************)
(* Python dict with insertion order: a sequence of [key, list] items       *)
(***************************************************************************)
DictHas(d, k) == \E i \in 1..Len(d) : d[i].key = k
DictIdx(d, k) == CHOOSE i \in 1..Len(d) : d[i].key = k
DictGet(d, k) == d[DictIdx(d, k)].list
DictSet(d, k, v) ==
    IF DictHas(d, k) THEN [d EXCEPT ![DictIdx(d, k)].list = v]
    ELSE Append(d, [key |-> k, list |-> v])
DictKeys(d) == { d[i].key : i \in 1..Len(d) }

(***************************************************************************)
(* initialize_db, statement by statement, on the record of the globals     *)
(***************************************************************************)
Globals ==
    [conn |-> conn, graph_name |-> graph_name, out |-> outgoing_relations,
     inc |-> incoming_relations, nodes |-> node_types, opened |-> opened]

SetGlobals(g) ==
    /\ conn' = g.conn
    /\ graph_name' = g.graph_name
    /\ outgoing_relations' = g.out
    /\ incoming_relations' = g.inc
    /\ node_types' = g.nodes
    /\ opened' = g.opened

\* line 67: conn = duckdb.connect(db_path)
Connect(g) == [g EXCEPT !.opened = g.opened + 1, !.conn = g.opened + 1]

\* lines 92-94: the last non-null property_graph wins
RECURSIVE GraphNameLoop(_, _, _)
GraphNameLoop(name, rows, i) ==
    IF i > Len(rows) THEN name
    ELSE GraphNameLoop(IF rows[i].pg # Null THEN rows[i].pg ELSE name, rows, i + 1)

ReadGraphName(g, rows) == [g EXCEPT !.graph_name = GraphNameLoop(g.graph_name, rows, 1)]

\* line 107 and line 108
ClearOutgoing(g) == [g EXCEPT !.out = << >>]
ClearIncoming(g) == [g EXCEPT !.inc = << >>]

\* line 111 without the test of the label
RowValidNoLabel(row) == row.src # Null /\ row.dst # Null

\* line 111
RowValid(row) == row.src # Null /\ row.dst # Null /\ row.lbl # Null

OutDesc(row) == [relation |-> row.lbl, destination |-> row.dst]
InDesc(row) == [relation |-> row.lbl, source |-> row.src]

\* lines 117-121 comparing with the last entry only
OutDuplicateLastOnly(l, row) ==
    Len(l) > 0 /\ l[Len(l)].relation = row.lbl /\ l[Len(l)].destination = row.dst

\* lines 117-121 and 131-135
OutDuplicate(l, row) ==
    \E j \in 1..Len(l) : l[j].relation = row.lbl /\ l[j].destination = row.dst
InDuplicate(l, row) ==
    \E j \in 1..Len(l) : l[j].relation = row.lbl /\ l[j].source = row.src

\* line 113 and line 127
OutPresent(g, row) == DictHas(g.out, row.src)
InPresent(g, row) == DictHas(g.inc, row.dst)

\* lines 118 and 124 read outgoing_relations[source]: KeyError when the key is gone
OutKeyError(g, row) == ~DictHas(g.out, row.src)
\* line 114
OutStore(g, row) == [g EXCEPT !.out = DictSet(g.out, row.src, <<OutDesc(row)>>)]
\* line 124
OutAppend(g, row) ==
    [g EXCEPT !.out = DictSet(g.out, row.src, Append(DictGet(g.out, row.src), OutDesc(row)))]

\* lines 132 and 138 read incoming_relations[destination]
InKeyError(g, row) == ~DictHas(g.inc, row.dst)
\* line 128
InStore(g, row) == [g EXCEPT !.inc = DictSet(g.inc, row.dst, <<InDesc(row)>>)]
\* line 138
InAppend(g, row) ==
    [g EXCEPT !.inc = DictSet(g.inc, row.dst, Append(DictGet(g.inc, row.dst), InDesc(row)))]

\* lines 140-141
AddNodeTypes(g, row) == [g EXCEPT !.nodes = g.nodes \cup {row.src, row.dst}]

\* line 148 with the bound off by one
CanRetryOffByOne(a) == a < max_attempts

\* line 148
CanRetry(a) == a < max_attempts - 1

(***************************************************************************)
(* Requests, rendered queries and responses                                *)
(***************************************************************************)
Request(op, query, label, id, direction, relationshipType) ==
    [op |-> op, query |-> query, label |-> label, id |-> id,
     direction |-> direction, relationshipType |-> relationshipType]

NoRequest == Request("none", Null, Null, Null, Null, Null)

\* Python truthiness of a JSON string field: absent/null (Null) and "" are falsy
Falsy(x) == x = Null \/ x = ""

Resp(status, error, payload, executed) ==
    [status |-> status, error |-> error, payload |-> payload, executed |-> executed]

\* an error response carries no results
NoPayload == << >>

NoResponse == Resp(0, Null, NoPayload, << >>)

\* the outer "except Exception" of every handler (lines 191-193, 202-204, 243-245, 323-325)
ServerError == Resp(500, "Server error", NoPayload, << >>)

\* line 264 with "and" for "or"
ValidateBothMissing(r) ==
    IF r.op = "query" /\ Falsy(r.query) THEN "Query is required"
    ELSE IF r.op = "neighbors" /\ (Falsy(r.label) /\ Falsy(r.id))
         THEN "node_label and node_id are required"
    ELSE Null

\* lines 161-162 and 264-265: the error of a request rejected before initialize_db
Validate(r) ==
    IF r.op = "query" /\ Falsy(r.query) THEN "Query is required"
    ELSE IF r.op = "neighbors" /\ (Falsy(r.label) \/ Falsy(r.id))
         THEN "node_label and node_id are required"
    ELSE Null

\* the f-strings of lines 226/235, 281-286 and 304-309, by their interpolated slots
Query(graph, a, a_id, n, b, b_id, columns, limit) ==
    [graph |-> graph, a |-> a, a_id |-> a_id, n |-> n, b |-> b, b_id |-> b_id,
     columns |-> columns, limit |-> limit]

DefaultQuery(graph, source_label, rel_type, dest_label) ==
    Query(graph, source_label, Null, rel_type, dest_label, Null, "a, n, b", 5)
OutgoingQuery(graph, node_label, node_id, r_d) ==
    Query(graph, node_label, node_id, r_d.relation, r_d.destination, Null, "b", 0)
IncomingQuery(graph, node_label, node_id, r_d) ==
    Query(graph, r_d.source, Null, r_d.relation, node_label, node_id, "a", 0)

\* what the database answers to a query that does not raise
DbRows(q) == << <<q.columns, q.n>> >>
DbRawRows(q) == << <<q, 1>> >>
DbDescription(q) == <<"c0">>

\* lines 175-184
ColumnName(column_names, i) ==
    IF i < Len(column_names) THEN column_names[i + 1] ELSE <<"col", i>>
RowDict(row, column_names) ==
    [j \in 1..Len(row) |-> [name |-> ColumnName(column_names, j - 1), value |-> row[j]]]
ResultDicts(results, column_names) ==
    [k \in 1..Len(results) |-> RowDict(results[k], column_names)]

\* lines 169-190
ExecuteQueryBody(r, failAt) ==
    IF failAt = 1 THEN Resp(500, "Error executing query", NoPayload, <<r.query>>)
    ELSE Resp(200, Null, ResultDicts(DbRawRows(r.query), DbDescription(r.query)), <<r.query>>)

\* line 200
NodeTypesBody(g) == Resp(200, Null, g.nodes, << >>)

\* line 213 without the test of graph_name
NoGraphStructureIgnoresName(g) == Len(g.out) = 0 /\ Len(g.inc) = 0

\* line 213
NoGraphStructure(g) == g.graph_name = "" \/ (Len(g.out) = 0 /\ Len(g.inc) = 0)

\* lines 212-241
DefaultQueryBody(g) ==
    IF NoGraphStructure(g) THEN Resp(500, "No graph structure available", NoPayload, << >>)
    ELSE IF Len(g.out) > 0
         THEN LET source_label == g.out[1].key
                  relation == g.out[1].list[1]
              IN  Resp(200, Null,
                       <<DefaultQuery(g.graph_name, source_label, relation.relation,
                                      relation.destination)>>, << >>)
    ELSE IF Len(g.inc) > 0
         THEN LET dest_label == g.inc[1].key
                  relation == g.inc[1].list[1]
              IN  Resp(200, Null,
                       <<DefaultQuery(g.graph_name, relation.source, relation.relation,
                                      dest_label)>>, << >>)
    ELSE Resp(500, "Could not generate default query", NoPayload, << >>)

\* line 257: data.get('direction', 'both')
Direction(r) == IF r.direction = Null THEN "both" ELSE r.direction

\* lines 277 and 300
FilterSkips(relationship_type, r_d) ==
    ~Falsy(relationship_type) /\ r_d.relation # relationship_type

OutgoingGroup(r_d, results) ==
    [relation |-> r_d.relation, destination |-> r_d.destination,
     direction |-> "outgoing", results |-> results]
IncomingGroup(r_d, results) ==
    [relation |-> r_d.relation, source |-> r_d.source,
     direction |-> "incoming", results |-> results]

\* One executed query: the failAt-th execute of the request raises (0: none does)
Execute(acc, q, group, failAt) ==
    IF Len(acc.executed) + 1 = failAt
    THEN [acc EXCEPT !.executed = Append(@, q), !.failed = TRUE]
    ELSE [acc EXCEPT !.executed = Append(@, q), !.result_dicts = Append(@, group)]

\* lines 275-294
RECURSIVE OutgoingLoop(_, _, _, _, _, _)
OutgoingLoop(list, k, acc, r, graph, failAt) ==
    IF k > Len(list) \/ acc.failed THEN acc
    ELSE IF FilterSkips(r.relationshipType, list[k])
         THEN OutgoingLoop(list, k + 1, acc, r, graph, failAt)
    ELSE LET q == OutgoingQuery(graph, r.label, r.id, list[k])
         IN  OutgoingLoop(list, k + 1,
                          Execute(acc, q, OutgoingGroup(list[k], DbRows(q)), failAt),
                          r, graph, failAt)

\* lines 298-317
RECURSIVE IncomingLoop(_, _, _, _, _, _)
IncomingLoop(list, k, acc, r, graph, failAt) ==
    IF k > Len(list) \/ acc.failed THEN acc
    ELSE IF FilterSkips(r.relationshipType, list[k])
         THEN IncomingLoop(list, k + 1, acc, r, graph, failAt)
    ELSE LET q == IncomingQuery(graph, r.label, r.id, list[k])
         IN  IncomingLoop(list, k + 1,
                          Execute(acc, q, IncomingGroup(list[k], DbRows(q)), failAt),
                          r, graph, failAt)

\* line 297 without 'both'
TakesIncomingOnly(direction) == direction = "incoming"

\* lines 274 and 297
TakesOutgoing(direction) == direction \in {"both", "outgoing"}
TakesIncoming(direction) == direction \in {"both", "incoming"}

\* line 322 returning what was collected before the failure
NeighborsResponsePartial(acc) ==
    IF acc.failed THEN Resp(500, "Error executing query", acc.result_dicts, acc.executed)
    ELSE Resp(200, Null, acc.result_dicts, acc.executed)

\* lines 319 and 320-322
NeighborsResponse(acc) ==
    IF acc.failed THEN Resp(500, "Error executing query", NoPayload, acc.executed)
    ELSE Resp(200, Null, acc.result_dicts, acc.executed)

\* lines 270-322
NeighborsBody(g, r, failAt) ==
    LET a0 == [result_dicts |-> << >>, executed |-> << >>, failed |-> FALSE]
        a1 == IF TakesOutgoing(Direction(r)) /\ DictHas(g.out, r.label)
              THEN OutgoingLoop(DictGet(g.out, r.label), 1, a0, r, g.graph_name, failAt)
              ELSE a0
        a2 == IF ~a1.failed /\ TakesIncoming(Direction(r)) /\ DictHas(g.inc, r.label)
              THEN IncomingLoop(DictGet(g.inc, r.label), 1, a1, r, g.graph_name, failAt)
              ELSE a1
    IN  NeighborsResponse(a2)

HandlerBody(g, r, failAt) ==
    CASE r.op = "query" -> ExecuteQueryBody(r, failAt)
      [] r.op = "node_types" -> NodeTypesBody(g)
      [] r.op = "default_query" -> DefaultQueryBody(g)
      [] OTHER -> NeighborsBody(g, r, failAt)

(***************************************************************************)
(* Request universes                                                       *)
(***************************************************************************)
MissingFields == {<<Null, "42">>, <<"", "42">>, <<"A", Null>>, <<"A", "">>, <<Null, Null>>}

SeqRequests ==
    { Request("query", q, Null, Null, Null, Null) : q \in {Null, "", "q"} }
    \cup { Request("node_types", Null, Null, Null, Null, Null),
           Request("default_query", Null, Null, Null, Null, Null) }
    \cup { Request("neighbors", Null, l, "42", d, f) :
             l \in {"A", "B"},
             d \in {Null, "outgoing", "incoming", "both", "sideways"},
             f \in {Null, "r"} }
    \cup { Request("neighbors", Null, m[1], m[2], d, f) :
             m \in MissingFields, d \in {Null, "outgoing"}, f \in {Null, "r"} }

ConcRequests ==
    { Request("default_query", Null, Null, Null, Null, Null) }

BuildRequests == { Request("node_types", Null, Null, Null, Null, Null) }

(***************************************************************************)
(* Actions                                                                 *)
(***************************************************************************)
Idle(t) ==
    /\ attempt' = [attempt EXCEPT ![t] = 0]
    /\ rowi' = [rowi EXCEPT ![t] = 1]
    /\ present' = [present EXCEPT ![t] = FALSE]
    /\ db_conn' = [db_conn EXCEPT ![t] = 0]
    /\ hist' = [hist EXCEPT ![t] = << >>]
    /\ pc' = [pc EXCEPT ![t] = "idle"]

\* A handler is entered: lines 158-162, 198, 208, 254-265
Receive(t, R) ==
    /\ pc[t] = "idle"
    /\ \E r \in R :
         /\ req' = [req EXCEPT ![t] = r]
         /\ IF Validate(r) # Null
            THEN /\ response' = [response EXCEPT ![t] = Resp(400, Validate(r), NoPayload, << >>)]
                 /\ pc' = pc
            ELSE /\ response' = [response EXCEPT ![t] = NoResponse]
                 /\ pc' = [pc EXCEPT ![t] = "init_check"]
    /\ UNCHANGED <<catalog, globals, attempt, rowi, present, hist, db_conn>>

\* lines 55-56 and 59-60
InitCheck(t) ==
    /\ pc[t] = "init_check"
    /\ IF conn # 0
       THEN /\ db_conn' = [db_conn EXCEPT ![t] = conn]
            /\ pc' = [pc EXCEPT ![t] = "body"]
       ELSE /\ db_conn' = db_conn
            /\ pc' = [pc EXCEPT ![t] = "connect"]
    /\ UNCHANGED <<catalog, globals, req, attempt, rowi, present, hist, response>>

\* lines 146-153: the except block of the attempt, and the handler's outer except
Except(t) ==
    /\ IF CanRetry(attempt[t])
       THEN /\ hist' = [hist EXCEPT ![t] = Append(@, "failed")]
            /\ attempt' = [attempt EXCEPT ![t] = @ + 1]
            /\ pc' = [pc EXCEPT ![t] = "connect"]
            /\ rowi' = [rowi EXCEPT ![t] = 1]
            /\ present' = [present EXCEPT ![t] = FALSE]
            /\ UNCHANGED <<db_conn, response>>
       ELSE /\ Idle(t)
            /\ response' = [response EXCEPT ![t] = ServerError]
    /\ UNCHANGED <<catalog, req>>

Proceed(t, next) ==
    /\ pc' = [pc EXCEPT ![t] = next]
    /\ UNCHANGED <<catalog, req, attempt, rowi, present, hist, db_conn, response>>

\* on to line 127, the branch taken at line 113 forgotten
ToInCheck(t) ==
    /\ pc' = [pc EXCEPT ![t] = "in_check"]
    /\ present' = [present EXCEPT ![t] = FALSE]
    /\ UNCHANGED <<catalog, req, attempt, rowi, hist, db_conn, response>>

\* line 67
DoConnect(t) ==
    /\ pc[t] = "connect"
    /\ \E ok \in BOOLEAN :
         IF ok THEN SetGlobals(Connect(Globals)) /\ Proceed(t, "graph")
         ELSE UNCHANGED globals /\ Except(t)

\* lines 68-94: extensions, embeddings function and test query (they touch the
\* connection only, no global), then the property graph name
DoGraph(t) ==
    /\ pc[t] = "graph"
    /\ \E ok \in BOOLEAN :
         IF ok THEN SetGlobals(ReadGraphName(Globals, catalog)) /\ Proceed(t, "clear_out")
         ELSE UNCHANGED globals /\ Except(t)

\* lines 97-107: the three catalog queries (results in locals), then the first clear
DoClearOut(t) ==
    /\ pc[t] = "clear_out"
    /\ \E ok \in BOOLEAN :
         IF ok THEN SetGlobals(ClearOutgoing(Globals)) /\ Proceed(t, "clear_in")
         ELSE UNCHANGED globals /\ Except(t)

\* line 108
DoClearIn(t) ==
    /\ pc[t] = "clear_in"
    /\ SetGlobals(ClearIncoming(Globals))
    /\ Proceed(t, "row")

\* lines 110-113: next row of the zip, its null test, and the test of line 113
DoRow(t) ==
    /\ pc[t] = "row"
    /\ rowi[t] <= Len(catalog)
    /\ UNCHANGED <<catalog, globals, req, attempt, hist, db_conn, response>>
    /\ IF RowValid(catalog[rowi[t]])
       THEN /\ present' = [present EXCEPT ![t] = OutPresent(Globals, catalog[rowi[t]])]
            /\ pc' = [pc EXCEPT ![t] = "out_apply"]
            /\ rowi' = rowi
       ELSE /\ rowi' = [rowi EXCEPT ![t] = @ + 1]
            /\ UNCHANGED <<present, pc>>

\* line 114 (key absent at line 113), or lines 116-121 (the scan for a duplicate)
DoOutApply(t) ==
    /\ pc[t] = "out_apply"
    /\ IF ~present[t]
       THEN SetGlobals(OutStore(Globals, catalog[rowi[t]])) /\ ToInCheck(t)
       ELSE /\ UNCHANGED globals
            /\ IF OutKeyError(Globals, catalog[rowi[t]]) THEN Except(t)
               ELSE IF OutDuplicate(DictGet(outgoing_relations, catalog[rowi[t]].src),
                                    catalog[rowi[t]])
                    THEN ToInCheck(t)
                    ELSE Proceed(t, "out_append")

\* lines 123-124
DoOutAppend(t) ==
    /\ pc[t] = "out_append"
    /\ IF OutKeyError(Globals, catalog[rowi[t]])
       THEN UNCHANGED globals /\ Except(t)
       ELSE SetGlobals(OutAppend(Globals, catalog[rowi[t]])) /\ ToInCheck(t)

\* line 127
DoInCheck(t) ==
    /\ pc[t] = "in_check"
    /\ present' = [present EXCEPT ![t] = InPresent(Globals, catalog[rowi[t]])]
    /\ pc' = [pc EXCEPT ![t] = "in_apply"]
    /\ UNCHANGED <<catalog, globals, req, attempt, rowi, hist, db_conn, response>>

\* lines 140-141, and on to the next row of the zip
NextRow(t, g) ==
    /\ SetGlobals(AddNodeTypes(g, catalog[rowi[t]]))
    /\ pc' = [pc EXCEPT ![t] = "row"]
    /\ rowi' = [rowi EXCEPT ![t] = @ + 1]
    /\ present' = [present EXCEPT ![t] = FALSE]
    /\ UNCHANGED <<catalog, req, attempt, hist, db_conn, response>>

\* line 128 (key absent at line 127), or lines 130-135 (the scan for a duplicate)
DoInApply(t) ==
    /\ pc[t] = "in_apply"
    /\ IF ~present[t]
       THEN NextRow(t, InStore(Globals, catalog[rowi[t]]))
       ELSE IF InKeyError(Globals, catalog[rowi[t]])
            THEN UNCHANGED globals /\ Except(t)
            ELSE IF InDuplicate(DictGet(incoming_relations, catalog[rowi[t]].dst),
                                catalog[rowi[t]])
                 THEN NextRow(t, Globals)
                 ELSE UNCHANGED globals /\ Proceed(t, "in_append")

\* lines 137-138
DoInAppend(t) ==
    /\ pc[t] = "in_append"
    /\ IF InKeyError(Globals, catalog[rowi[t]])
       THEN UNCHANGED globals /\ Except(t)
       ELSE NextRow(t, InAppend(Globals, catalog[rowi[t]]))

\* lines 143-145: return conn
InitReturn(t) ==
    /\ pc[t] = "row"
    /\ rowi[t] > Len(catalog)
    /\ db_conn' = [db_conn EXCEPT ![t] = conn]
    /\ hist' = [hist EXCEPT ![t] = Append(@, "ok")]
    /\ pc' = [pc EXCEPT ![t] = "body"]
    /\ UNCHANGED <<catalog, globals, req, attempt, rowi, present, response>>

\* the handler after initialize_db returned: lines 169-190, 200, 212-241, 270-322
Body(t) ==
    /\ pc[t] = "body"
    /\ \E failAt \in 0..Len(HandlerBody(Globals, req[t], 0).executed) :
         response' = [response EXCEPT ![t] = HandlerBody(Globals, req[t], failAt)]
    /\ Idle(t)
    /\ UNCHANGED <<catalog, globals, req>>

Step(t, R) ==
    \/ Receive(t, R)
    \/ InitCheck(t)
    \/ DoConnect(t)
    \/ DoGraph(t)
    \/ DoClearOut(t)
    \/ DoClearIn(t)
    \/ DoRow(t)
    \/ DoOutApply(t)
    \/ DoOutAppend(t)
    \/ DoInCheck(t)
    \/ DoInApply(t)
    \/ DoInAppend(t)
    \/ InitReturn(t)
    \/ Body(t)

\* lines 18-22
InitWith(catalogs) ==
    /\ catalog \in catalogs
    /\ conn = 0
    /\ graph_name = ""
    /\ outgoing_relations = << >>
    /\ incoming_relations = << >>
    /\ node_types = {}
    /\ opened = 0
    /\ pc = [t \in Threads |-> "idle"]
    /\ req = [t \in Threads |-> NoRequest]
    /\ attempt = [t \in Threads |-> 0]
    /\ rowi = [t \in Threads |-> 1]
    /\ present = [t \in Threads |-> FALSE]
    /\ hist = [t \in Threads |-> << >>]
    /\ db_conn = [t \in Threads |-> 0]
    /\ response = [t \in Threads |-> NoResponse]

Init == InitWith(SeqsUpTo(ConcCatalogRows, ConcRows))
Next == \E t \in Threads : Step(t, ConcRequests)
Spec == Init /\ [][Next]_vars

SeqInit == InitWith(SeqsUpTo(SeqCatalogRows, SeqRows))
SeqNext == Step(SeqThread, SeqRequests)
SeqSpec == SeqInit /\ [][SeqNext]_vars

BuildInit == InitWith(SeqsUpTo(CatalogRows, MaxRows))
BuildNext == Step(SeqThread, BuildRequests)
BuildSpec == BuildInit /\ [][BuildNext]_vars

(***************************************************************************)
(* What the catalog says the globals hold after a complete initialization  *)
(***************************************************************************)
ListSet(l) == { l[j] : j \in 1..Len(l) }
Last(l) == l[Len(l)]
NoNullField(row) == Null \notin {row.src, row.dst, row.lbl}
ValidRowIdx == { i \in 1..Len(catalog) : NoNullField(catalog[i]) }
CatalogOut(label) == { OutDesc(catalog[i]) : i \in { j \in ValidRowIdx : catalog[j].src = label } }
CatalogIn(label) == { InDesc(catalog[i]) : i \in { j \in ValidRowIdx : catalog[j].dst = label } }
CatalogLabels == UNION { {catalog[i].src, catalog[i].dst} : i \in ValidRowIdx }
NamedRowIdx == { i \in 1..Len(catalog) : catalog[i].pg # Null }
CatalogGraphName ==
    IF NamedRowIdx = {} THEN ""
    ELSE catalog[CHOOSE i \in NamedRowIdx : \A j \in NamedRowIdx : j <= i].pg

IndexPopulated ==
    /\ DictKeys(outgoing_relations) = { catalog[i].src : i \in ValidRowIdx }
    /\ DictKeys(incoming_relations) = { catalog[i].dst : i \in ValidRowIdx }
    /\ \A k \in 1..Len(outgoing_relations) :
         ListSet(outgoing_relations[k].list) = CatalogOut(outgoing_relations[k].key)
    /\ \A k \in 1..Len(incoming_relations) :
         ListSet(incoming_relations[k].list) = CatalogIn(incoming_relations[k].key)

FullyInitialized == IndexPopulated /\ graph_name = CatalogGraphName

InLoop == {"connect", "graph", "clear_out", "clear_in", "row",
           "out_apply", "out_append", "in_check", "in_apply", "in_append"}

(***************************************************************************)
(* C1. Whenever a handler is about to read the globals after its          *)
(* initialize_db call returned, conn is None or the graph name and the    *)
(* adjacency index are the ones the catalog defines.                      *)
(***************************************************************************)
C1_NoPartialState ==
    \A t \in Threads : pc[t] = "body" => (conn = 0 \/ FullyInitialized)

(***************************************************************************)
(* C2. A call of initialize_db that found conn None makes at most         *)
(* max_attempts attempts; every attempt before the last one of the call   *)
(* failed; it reaches the handler body only from the return of a          *)
(* successful attempt; a failed attempt 1 or 2 starts the next attempt,   *)
(* and a failed attempt 3 ends the request with the propagated error.     *)
(***************************************************************************)
C2_Attempts ==
    \A t \in Threads :
      /\ Len(hist[t]) < max_attempts + 1
      /\ attempt[t] < max_attempts
      /\ \A i \in 1..(Len(hist[t]) - 1) : hist[t][i] = "failed"
      /\ pc[t] \in InLoop =>
           /\ Len(hist[t]) = attempt[t]
           /\ \A i \in 1..Len(hist[t]) : hist[t][i] = "failed"
      /\ (pc[t] = "body" /\ hist[t] # << >>) => Last(hist[t]) = "ok"

C2_Step ==
    \A t \in Threads :
      /\ (pc[t] = "init_check" /\ conn = 0) => pc'[t] \in {"init_check", "connect"}
      /\ (pc[t] \in InLoop /\ pc'[t] = "body") =>
           /\ hist'[t] = Append(hist[t], "ok")
           /\ db_conn'[t] # 0
      /\ (pc[t] \in InLoop /\ hist'[t] = Append(hist[t], "failed")) =>
           /\ Len(hist'[t]) < max_attempts
           /\ pc'[t] = "connect" /\ attempt'[t] = attempt[t] + 1
           /\ response'[t] = response[t]
      /\ (pc[t] \in InLoop /\ pc'[t] = "idle") =>
           /\ hist[t] = [i \in 1..(max_attempts - 1) |-> "failed"]
           /\ response'[t] = ServerError
      /\ (pc[t] \in InLoop /\ pc'[t] \notin InLoop \cup {"body", "idle"}) => FALSE

\* C2: at most max_attempts attempts per call, each earlier one failed, a retry after
\* failed attempts 1 and 2, the error propagated after failed attempt 3
C2_BoundedRetry == [](C2_Attempts) /\ [][C2_Step]_vars

C2_Witness ==
    \E t, u \in Threads :
      /\ pc[t] = "idle" /\ response[t] = ServerError
      /\ pc[u] = "body" /\ hist[u] = <<"failed", "failed", "ok">>

(***************************************************************************)
(* C3. While some thread holds the result of a successful initialize_db   *)
(* call, no step changes conn, opens the database, or changes the         *)
(* outgoing map, the incoming map, node_types or graph_name.              *)
(***************************************************************************)
SomeCallSucceeded == \E t \in Threads : hist[t] # << >> /\ Last(hist[t]) = "ok"

\* C3: once a call has succeeded no step opens the database again or changes conn,
\* the outgoing map, the incoming map, node_types or graph_name
C3_Idempotent ==
    [][SomeCallSucceeded =>
         UNCHANGED <<conn, opened, outgoing_relations, incoming_relations,
                     node_types, graph_name>>]_vars

(***************************************************************************)
(* C4. When initialize_db returns from a successful attempt: every        *)
(* catalog row without a null field has its pair in outgoing[source] and  *)
(* its symmetric pair in incoming[destination]; every entry of either map *)
(* comes from such a row; node_types holds exactly the labels of such     *)
(* rows.                                                                  *)
(***************************************************************************)
Returned(t) == pc[t] = "body" /\ hist[t] # << >> /\ Last(hist[t]) = "ok"

NoRepeat(l) == \A j1, j2 \in 1..Len(l) : j1 < j2 => l[j1] # l[j2]

RowIdxSeq == [i \in 1..Len(catalog) |-> i]

FirstOutRows(label) ==
    LET First(i) ==
          /\ i \in ValidRowIdx /\ catalog[i].src = label
          /\ ~\E j \in ValidRowIdx :
                /\ j < i /\ catalog[j].src = label
                /\ catalog[j].lbl = catalog[i].lbl /\ catalog[j].dst = catalog[i].dst
    IN  SelectSeq(RowIdxSeq, First)

FirstInRows(label) ==
    LET First(i) ==
          /\ i \in ValidRowIdx /\ catalog[i].dst = label
          /\ ~\E j \in ValidRowIdx :
                /\ j < i /\ catalog[j].dst = label
                /\ catalog[j].lbl = catalog[i].lbl /\ catalog[j].src = catalog[i].src
    IN  SelectSeq(RowIdxSeq, First)

C6_GraphNameNonEmpty ==
    \A t \in Threads :
      /\ req[t].op = "neighbors" =>
           \A k \in 1..Len(response[t].executed) : response[t].executed[k].graph # ""
      /\ req[t].op = "default_query" =>
           \A k \in 1..Len(response[t].payload) : response[t].payload[k].graph # ""

(***************************************************************************)
(* C7. The response of get_default_query is a function of the index and   *)
(* the graph name it reads.                                               *)
(***************************************************************************)
BodyStep(t) == pc[t] = "body" /\ pc'[t] = "idle"

NoStructureResponse == Resp(500, "No graph structure available", NoPayload, << >>)

RenderedDefault(a, n, b) ==
    Resp(200, Null,
         <<[graph |-> graph_name, a |-> a, a_id |-> Null, n |-> n, b |-> b, b_id |-> Null,
            columns |-> "a, n, b", limit |-> 5]>>, << >>)

\* the policy as the claim states it: the index alone decides
StatedPolicy ==
    IF Len(outgoing_relations) > 0
    THEN RenderedDefault(outgoing_relations[1].key, outgoing_relations[1].list[1].relation,
                         outgoing_relations[1].list[1].destination)
    ELSE IF Len(incoming_relations) > 0
    THEN RenderedDefault(incoming_relations[1].list[1].source,
                         incoming_relations[1].list[1].relation, incoming_relations[1].key)
    ELSE NoStructureResponse

Passes(r, d) == r.relationshipType \in {Null, ""} \/ d.relation = r.relationshipType

Descriptors(dict, r) ==
    LET Keep(d) == Passes(r, d)
    IN  IF DictHas(dict, r.label) THEN SelectSeq(DictGet(dict, r.label), Keep) ELSE << >>

MatchFrom(r, d) ==
    [graph |-> graph_name, a |-> r.label, a_id |-> r.id, n |-> d.relation,
     b |-> d.destination, b_id |-> Null, columns |-> "b", limit |-> 0]
MatchInto(r, d) ==
    [graph |-> graph_name, a |-> d.source, a_id |-> Null, n |-> d.relation,
     b |-> r.label, b_id |-> r.id, columns |-> "a", limit |-> 0]

OutgoingQueries(r) ==
    LET F == Descriptors(outgoing_relations, r) IN [k \in 1..Len(F) |-> MatchFrom(r, F[k])]
IncomingQueries(r) ==
    LET F == Descriptors(incoming_relations, r) IN [k \in 1..Len(F) |-> MatchInto(r, F[k])]

OutgoingGroups(r) ==
    LET F == Descriptors(outgoing_relations, r)
    IN  [k \in 1..Len(F) |->
           [relation |-> F[k].relation, destination |-> F[k].destination,
            direction |-> "outgoing", results |-> DbRows(MatchFrom(r, F[k]))]]
IncomingGroups(r) ==
    LET F == Descriptors(incoming_relations, r)
    IN  [k \in 1..Len(F) |->
           [relation |-> F[k].relation, source |-> F[k].source,
            direction |-> "incoming", results |-> DbRows(MatchInto(r, F[k]))]]

AllQueries(r) ==
    IF r.direction = "outgoing" THEN OutgoingQueries(r)
    ELSE IF r.direction = "incoming" THEN IncomingQueries(r)
    ELSE IF r.direction \in {Null, "both"} THEN OutgoingQueries(r) \o IncomingQueries(r)
    ELSE << >>

Answered(t) == pc[t] = "idle" /\ req[t].op = "neighbors" /\ response[t].status # 0

(***************************************************************************)
(* C8. A neighbor request whose queries all succeed answers: for          *)
(* 'outgoing' the outgoing groups only, for 'incoming' the incoming       *)
(* groups only, for 'both' (or no direction) the outgoing groups followed *)
(* by the incoming groups; one group and one executed query per           *)
(* descriptor of the label that passes the filter, in insertion order.    *)
(***************************************************************************)
C8_Directions ==
    \A t \in Threads : (Answered(t) /\ response[t].status = 200) =>
      LET r == req[t]
          got == response[t]
      IN  /\ got.executed = AllQueries(r)
          /\ r.direction = "outgoing" =>
               /\ got.payload = OutgoingGroups(r)
               /\ \A k \in 1..Len(got.payload) : got.payload[k].direction = "outgoing"
          /\ r.direction = "incoming" =>
               /\ got.payload = IncomingGroups(r)
               /\ \A k \in 1..Len(got.payload) : got.payload[k].direction = "incoming"
          /\ r.direction \in {Null, "both"} =>
               got.payload = OutgoingGroups(r) \o IncomingGroups(r)

C8_Witness ==
    \E t \in Threads :
      /\ Answered(t) /\ response[t].status = 200
      /\ req[t].direction = "both" /\ req[t].relationshipType = "r"
      /\ DictHas(outgoing_relations, req[t].label)
      /\ Len(DictGet(outgoing_relations, req[t].label)) = 2
      /\ Len(response[t].payload) = 2
      /\ response[t].payload[1].direction = "outgoing"
      /\ response[t].payload[2].direction = "incoming"

(***************************************************************************)
(* C9. A neighbor request without a label or without an id is answered    *)
(* with the validation error (status 400) as it is received: the thread   *)
(* never enters initialize_db or the handler body, and executes no query. *)
(***************************************************************************)
Missing(x) == x \in {Null, ""}

C10_Failed ==
    \A t \in Threads :
      (Answered(t) /\ response[t].error = "Error executing query") =>
        /\ response[t].status = 500
        /\ response[t].payload = << >>
        /\ Len(response[t].executed) \in 1..Len(AllQueries(req[t]))
        /\ response[t].executed = SubSeq(AllQueries(req[t]), 1, Len(response[t].executed))

C10_Frame ==
    \A t \in Threads :
      BodyStep(t) =>
        UNCHANGED <<catalog, conn, opened, graph_name, outgoing_relations,
                    incoming_relations, node_types>>

\* C10: a neighbor request in which a query raises returns status 500 with no result
\* group, having executed a prefix of its queries, and changes no global
C10_AllOrNothing == [](C10_Failed) /\ [][C10_Frame]_vars

C10_Witness ==
    \E t \in Threads :
      /\ Answered(t) /\ response[t].error = "Error executing query"
      /\ req[t].direction = "both"
      /\ Len(response[t].executed) = 2
      /\ Len(AllQueries(req[t])) = 3

====
